---- MODULE Spec2Model ----
(***************************************************************************)
(* Model of the tcp-broadcast relay (src/src/main.rs): the select loop of  *)
(* main, handle_new_client, the broadcast loop and the acknowledgement.    *)
(*                                                                         *)
(* A connection is a number 1..nconn given in order of arrival; port[c] is *)
(* its peer port, which the program uses as client id.  writers and inputs *)
(* map a client id to the connection whose write half / line stream they   *)
(* hold (NoConn when the key is absent).  The line-ready handler is cut at *)
(* its await points: one step per recipient, the removal of the failed     *)
(* writers, the acknowledgement.  Connections arrive at any time; what the *)
(* clients send is seen when main polls the streams, in select.  log,      *)
(* tried, startWriters, startLog, ended, failed, superseded and processed  *)
(* record what has happened and do not influence the program.             *)
(***************************************************************************)
EXTENDS Integers, Sequences, FiniteSets, TLC

\* ---- bounds of the model ------------------------------------------------
MaxId == 3          \* peer ports are 1..MaxId
MaxConns == 3       \* connections that ever arrive
MaxLines == 2       \* lines that clients ever send, in total
MaxBacklog == 1     \* events waiting in the connection source

Ids == 1..MaxId
Conns == 1..MaxConns
NoConn == 0
NoId == 0
NoText == 0
\* The program never looks inside a line: the n-th line sent in a run stands
\* for a text of its own, so that a line is told from every other one in
\* what is written to the connections.
Texts == 1..MaxLines
\* What a line stream yields: Some(Ok(line)), Some(Err(e)), None.
LineItem(t) == [kind |-> "line", text |-> t]
ErrItem == [kind |-> "err", text |-> NoText]
EofItem == [kind |-> "eof", text |-> NoText]
WriteResults == {"ok", "write_err", "flush_err"}
LoginResults == {"ok", "peer_err", "write_err", "flush_err"}

VARIABLES
  pc,            \* position of main: "select", "broadcast", "ack", "stopped",
                 \* or "stalled" in a write or flush that never completes
  incoming,      \* events the connection source will yield, oldest first
  writers,       \* client id -> connection of the registered write half
  inputs,        \* client id -> connection of the watched line stream
  client_id,     \* line-ready handler: id of the sender
  line,          \* line-ready handler: the line read
  iter,          \* line-ready handler: keys writers.iter_mut() has yet to yield
  dead,          \* line-ready handler: the failed recipients
  nconn,         \* connections that have arrived so far
  port,          \* connection -> peer port
  inbuf,         \* connection -> what its line stream will yield, oldest first
  nlines,        \* lines sent by clients so far
  log,           \* connection -> messages written and flushed to it, in order
  tried,         \* write attempts of the current broadcast loop, in order
  startWriters,  \* writers when the current line-ready handler began
  startLog,      \* log when the current line-ready handler began
  ended,         \* connections whose stream yielded end-of-stream or an error
  failed,        \* connections a MESSAGE or ACK write or flush failed on
  superseded,    \* connections whose registration was replaced by a later one
  processed      \* the lines main has taken from the streams, in order

vars == <<pc, incoming, writers, inputs, client_id, line, iter, dead, nconn,
          port, inbuf, nlines, log, tried, startWriters, startLog, ended,
          failed, superseded, processed>>

mainVars == <<pc, writers, inputs, client_id, line, iter, dead, log, tried,
              startWriters, startLog, ended, failed, superseded, processed>>

\* ---- the three outbound messages ----------------------------------------
LoginMsg(id) == [kind |-> "LOGIN", id |-> id, text |-> NoText]
\* MessageMsg with a fault: the line is left out of the message.
MessageMsgNoLine(id, text) == [kind |-> "MESSAGE", id |-> id, text |-> NoText]
MessageMsg(id, text) == [kind |-> "MESSAGE", id |-> id, text |-> text]
AckMsg == [kind |-> "ACK", id |-> NoId, text |-> NoText]

\* ---- the registry -------------------------------------------------------
Keys(m) == {k \in Ids : m[k] # NoConn}
Range(m) == {m[k] : k \in Keys(m)}
Insert(m, id, c) == [m EXCEPT ![id] = c]
\* Remove with a fault: the whole mapping is cleared.
RemoveClears(m, id) == [k \in Ids |-> NoConn]
Remove(m, id) == [m EXCEPT ![id] = NoConn]

RECURSIVE RemoveAll(_, _)
RemoveAll(m, ids) ==
  IF ids = <<>> THEN m ELSE RemoveAll(Remove(m, Head(ids)), Tail(ids))

NoLog == [c \in Conns |-> <<>>]
NoWriters == [k \in Ids |-> NoConn]

Init ==
  /\ pc = "select"
  /\ incoming = <<>>
  /\ writers = NoWriters
  /\ inputs = NoWriters
  /\ client_id = NoId
  /\ line = NoText
  /\ iter = {}
  /\ dead = <<>>
  /\ nconn = 0
  /\ port = [c \in Conns |-> NoId]
  /\ inbuf = [c \in Conns |-> <<>>]
  /\ nlines = 0
  /\ log = NoLog
  /\ tried = <<>>
  /\ startWriters = NoWriters
  /\ startLog = NoLog
  /\ ended = {}
  /\ failed = {}
  /\ superseded = {}
  /\ processed = <<>>

\* ---- clients and network ------------------------------------------------
SourceOpen == \A i \in 1..Len(incoming) : incoming[i].kind # "end"

\* The program only compares ids and prints them, so a run and its image
\* under a renaming of the ports are the same run: a new connection comes
\* from a port already seen or from the least port not seen yet.
PortsSeen == {port[c] : c \in 1..nconn} \ {NoId}

Connect(p) ==
  /\ pc # "stopped" /\ SourceOpen
  /\ nconn < MaxConns /\ Len(incoming) < MaxBacklog
  /\ \A q \in 1..(p - 1) : q \in PortsSeen
  /\ nconn' = nconn + 1
  /\ port' = [port EXCEPT ![nconn + 1] = p]
  /\ incoming' = Append(incoming, [kind |-> "ok", conn |-> nconn + 1])
  /\ UNCHANGED <<mainVars, inbuf, nlines>>

\* A connection arrives and its accept fails: the source yields Some(Err(e))
\* for it, and its peer port is never known.
AcceptFailure ==
  /\ pc # "stopped" /\ SourceOpen
  /\ nconn < MaxConns /\ Len(incoming) < MaxBacklog
  /\ nconn' = nconn + 1
  /\ incoming' = Append(incoming, [kind |-> "err", conn |-> nconn + 1])
  /\ UNCHANGED <<mainVars, port, inbuf, nlines>>

ListenerClosed ==
  /\ pc # "stopped" /\ SourceOpen
  /\ Len(incoming) < MaxBacklog
  /\ incoming' = Append(incoming, [kind |-> "end", conn |-> NoConn])
  /\ UNCHANGED <<mainVars, nconn, port, inbuf, nlines>>

ReadOpen(c) ==
  /\ c \in 1..nconn
  /\ \A i \in 1..Len(inbuf[c]) : inbuf[c][i].kind = "line"

\* The server holds the line stream of c in inputs.
Watched(c) == \E k \in Ids : inputs[k] = c

\* A stream is polled only in select, so what a client sends while a handler
\* runs is seen as if sent when the handler returned.  A client whose
\* registration was replaced is not told, and may go on sending.
ClientSend(c) ==
  /\ pc = "select" /\ ReadOpen(c) /\ (Watched(c) \/ c \in superseded)
  /\ nlines < MaxLines
  /\ nlines' = nlines + 1
  /\ inbuf' = [inbuf EXCEPT ![c] = Append(@, LineItem(nlines + 1))]
  /\ UNCHANGED <<mainVars, incoming, nconn, port>>

ClientClose(c) ==
  /\ pc = "select" /\ ReadOpen(c) /\ Watched(c)
  /\ inbuf' = [inbuf EXCEPT ![c] = Append(@, EofItem)]
  /\ UNCHANGED <<mainVars, incoming, nconn, port, nlines>>

ClientBadBytes(c) ==
  /\ pc = "select" /\ ReadOpen(c) /\ Watched(c)
  /\ inbuf' = [inbuf EXCEPT ![c] = Append(@, ErrItem)]
  /\ UNCHANGED <<mainVars, incoming, nconn, port, nlines>>

envVars == <<incoming, nconn, port, inbuf, nlines>>

\* ---- handle_new_client --------------------------------------------------
\* Registered with a fault: the inserts do not wait for the login send.
RegisteredAlways(m, id, c, res) == Insert(m, id, c)
\* Registered with a fault: an id already present keeps its entry.
RegisteredIfAbsent(m, id, c, res) ==
  IF res = "ok" /\ m[id] = NoConn THEN Insert(m, id, c) ELSE m
\* The two `?` of the login send: the inserts are reached only when both the
\* write and the flush succeeded.
Registered(m, id, c, res) == IF res = "ok" THEN Insert(m, id, c) ELSE m

\* LoginSent with a fault: the client is registered without a login notice.
LoginNotSent(l, id, res) == l
\* What the new connection has been sent when handle_new_client returns.
LoginSent(l, id, res) == IF res = "ok" THEN Append(l, LoginMsg(id)) ELSE l

\* The connections an insert under id drops from the two mappings.
Replaced(id, c, res) ==
  IF res = "ok" THEN ({writers[id], inputs[id]} \ {NoConn, c}) ELSE {}

handle_new_client(c, res) ==
  LET id == port[c] IN
  /\ log' = [log EXCEPT ![c] = LoginSent(@, id, res)]
  /\ writers' = Registered(writers, id, c, res)
  /\ inputs' = Registered(inputs, id, c, res)
  /\ superseded' = superseded \cup Replaced(id, c, res)

\* ---- main: the select loop ----------------------------------------------
\* Selecting with a fault: the branches are polled while the broadcast loop
\* of a handler is still running.
SelectingInBroadcast == pc \in {"select", "broadcast"}
\* Selecting with a fault: the branches are polled again before the ack of
\* the handler in progress.
SelectingBeforeAck == pc \in {"select", "ack"}
\* `loop { tokio::select! { ... } }`: the two branches are polled only when
\* main is back at the select; a handler runs inside its branch to its end.
Selecting == pc = "select"

\* ---- main: the accept branch --------------------------------------------
AcceptOk ==
  /\ Selecting
  /\ incoming # <<>> /\ Head(incoming).kind = "ok"
  /\ incoming' = Tail(incoming)
  /\ \E res \in LoginResults : handle_new_client(Head(incoming).conn, res)
  /\ UNCHANGED <<pc, client_id, line, iter, dead, tried, startWriters, startLog,
                 ended, failed, processed, nconn, port, inbuf, nlines>>

\* AcceptErrArm with a fault: a failed accept ends the loop.
AcceptErrBreaks == "stopped"
\* `Some(Err(e)) => { eprintln!(..); }`: the arm falls through to the loop.
AcceptErrArm == "select"

AcceptErr ==
  /\ Selecting
  /\ incoming # <<>> /\ Head(incoming).kind = "err"
  /\ incoming' = Tail(incoming)
  /\ pc' = AcceptErrArm
  /\ UNCHANGED <<writers, inputs, client_id, line, iter, dead, log, tried,
                 startWriters, startLog, ended, failed, superseded, processed,
                 nconn, port, inbuf, nlines>>

AcceptNone ==
  /\ Selecting
  /\ incoming # <<>> /\ Head(incoming).kind = "end"
  /\ incoming' = Tail(incoming)
  /\ pc' = "stopped"
  /\ UNCHANGED <<writers, inputs, client_id, line, iter, dead, log, tried,
                 startWriters, startLog, ended, failed, superseded, processed,
                 nconn, port, inbuf, nlines>>

\* ---- main: the line-ready branch ----------------------------------------
\* NextItem with a fault: the newest item of the stream comes first.
NextItemNewest(id) == inbuf[inputs[id]][Len(inbuf[inputs[id]])]
\* What inputs.next() finds at the head of the stream watched under id.
NextItem(id) == Head(inbuf[inputs[id]])
Ready(id) == inputs[id] # NoConn /\ inbuf[inputs[id]] # <<>>

Taken(c, id, t) == [conn |-> c, id |-> id, text |-> t]

\* Some((client_id, Ok(line))): the handler starts; writers.iter_mut() will
\* yield every key of writers once, in an order the program does not choose.
LineReady(id) ==
  /\ Selecting
  /\ Ready(id) /\ NextItem(id).kind = "line"
  /\ inbuf' = [inbuf EXCEPT ![inputs[id]] = Tail(@)]
  /\ client_id' = id
  /\ line' = NextItem(id).text
  /\ iter' = Keys(writers)
  /\ dead' = <<>>
  /\ tried' = <<>>
  /\ startWriters' = writers
  /\ startLog' = log
  /\ processed' = Append(processed, Taken(inputs[id], id, NextItem(id).text))
  /\ pc' = "broadcast"
  /\ UNCHANGED <<writers, inputs, log, ended, failed, superseded, incoming,
                 nconn, port, nlines>>

\* IsSender with a fault: the sender is not skipped.
NeverSender(other_id, cid) == FALSE
\* `if other_id == client_id { continue; }`
IsSender(other_id, cid) == other_id = cid

Attempt(id, c, m, res) == [id |-> id, conn |-> c, msg |-> m, res |-> res]

\* DeadAfter with a fault: a failed flush is not recorded.
DeadAfterWriteOnly(d, other_id, res) ==
  IF res = "write_err" THEN Append(d, other_id) ELSE d
\* `dead.push(other_id)` after a failed write_all, and after a failed flush.
DeadAfter(d, other_id, res) == IF res = "ok" THEN d ELSE Append(d, other_id)

\* Written with a fault: the message goes out twice.
WrittenTwice(l, m, res) == IF res = "ok" THEN Append(Append(l, m), m) ELSE l
\* What a connection has been sent once one write_all and flush are over.
Written(l, m, res) == IF res = "ok" THEN Append(l, m) ELSE l

\* One iteration of the broadcast loop.
BroadcastStep(other_id) ==
  /\ pc = "broadcast"
  /\ other_id \in iter
  /\ iter' = iter \ {other_id}
  /\ IF IsSender(other_id, client_id)
     THEN UNCHANGED <<log, dead, tried, failed>>
     ELSE \E res \in WriteResults :
            LET w == writers[other_id]
                msg == MessageMsg(client_id, line) IN
            /\ tried' = Append(tried, Attempt(other_id, w, msg, res))
            /\ log' = [log EXCEPT ![w] = Written(@, msg, res)]
            /\ dead' = DeadAfter(dead, other_id, res)
            /\ failed' = IF res = "ok" THEN failed ELSE failed \cup {w}
  /\ UNCHANGED <<pc, writers, inputs, client_id, line, startWriters, startLog,
                 ended, superseded, processed, envVars>>

\* LoopDone with a fault: the loop may be left before the last recipient.
LoopDoneEarly(it) == TRUE
\* The `for` over writers.iter_mut() ends when every key has been yielded.
LoopDone(it) == it = {}

\* `for id in dead { writers.remove(&id); inputs.remove(&id); }`
RemoveDead ==
  /\ pc = "broadcast"
  /\ LoopDone(iter)
  /\ writers' = RemoveAll(writers, dead)
  /\ inputs' = RemoveAll(inputs, dead)
  /\ pc' = "ack"
  /\ UNCHANGED <<client_id, line, iter, dead, log, tried, startWriters, startLog,
                 ended, failed, superseded, processed, envVars>>

\* AfterAck with a fault: a failed flush of the acknowledgement is ignored.
AfterAckWriteOnly(m, cid, res) == IF res = "write_err" THEN Remove(m, cid) ELSE m
\* The registry after the acknowledgement: either failure removes the sender.
AfterAck(m, cid, res) == IF res = "ok" THEN m ELSE Remove(m, cid)

\* `if let Some(w) = writers.get_mut(&client_id) { ... }`, then the handler
\* returns and its locals are gone.
Ack ==
  /\ pc = "ack"
  /\ IF writers[client_id] # NoConn
     THEN \E res \in WriteResults :
            LET w == writers[client_id] IN
            /\ log' = [log EXCEPT ![w] = Written(@, AckMsg, res)]
            /\ failed' = IF res = "ok" THEN failed ELSE failed \cup {w}
            /\ writers' = AfterAck(writers, client_id, res)
            /\ inputs' = AfterAck(inputs, client_id, res)
     ELSE UNCHANGED <<log, failed, writers, inputs>>
  /\ pc' = "select"
  /\ client_id' = NoId /\ line' = NoText /\ dead' = <<>>
  /\ tried' = <<>> /\ startWriters' = NoWriters /\ startLog' = NoLog
  /\ UNCHANGED <<iter, ended, superseded, processed, envVars>>

\* A write_all or flush whose peer never drains its connection stays pending:
\* there is no timeout, and main waits in it for ever.
Stall ==
  /\ \/ pc = "broadcast" /\ \E k \in iter : ~IsSender(k, client_id)
     \/ pc = "ack" /\ writers[client_id] # NoConn
  /\ pc' = "stalled"
  /\ UNCHANGED <<writers, inputs, client_id, line, iter, dead, log, tried,
                 startWriters, startLog, ended, failed, superseded, processed,
                 envVars>>

\* Some((client_id, Err(e)))
ReadError(id) ==
  /\ Selecting
  /\ Ready(id) /\ NextItem(id).kind = "err"
  /\ inbuf' = [inbuf EXCEPT ![inputs[id]] = Tail(@)]
  /\ writers' = Remove(writers, id)
  /\ inputs' = Remove(inputs, id)
  /\ ended' = ended \cup {inputs[id]}
  /\ UNCHANGED <<pc, client_id, line, iter, dead, log, tried, startWriters,
                 startLog, failed, superseded, processed, incoming, nconn, port,
                 nlines>>

\* NoneArm with a fault: main leaves the loop when no stream is left.
NoneArmBreaks(inp) == IF Keys(inp) = {} THEN "stopped" ELSE "select"
\* `None => { }`: inputs.next() is None once the last stream has ended, and
\* the arm keeps main in the loop.
NoneArm(inp) == "select"

\* A stream of inputs that ends: StreamMap drops its entry while it is polled
\* and yields nothing for it; inputs.next() is None only when inputs is left
\* empty, and that arm does nothing.  The key of the ended stream never
\* reaches main.
EndOfStream(id) ==
  /\ Selecting
  /\ Ready(id) /\ NextItem(id).kind = "eof"
  /\ inbuf' = [inbuf EXCEPT ![inputs[id]] = Tail(@)]
  /\ inputs' = Remove(inputs, id)
  /\ ended' = ended \cup {inputs[id]}
  /\ pc' = NoneArm(inputs')
  /\ UNCHANGED <<writers, client_id, line, iter, dead, log, tried,
                 startWriters, startLog, failed, superseded, processed, incoming,
                 nconn, port, nlines>>

Next ==
  \/ \E p \in Ids : Connect(p)
  \/ AcceptFailure
  \/ ListenerClosed
  \/ \E c \in Conns : ClientSend(c)
  \/ \E c \in Conns : ClientClose(c)
  \/ \E c \in Conns : ClientBadBytes(c)
  \/ AcceptOk
  \/ AcceptErr
  \/ AcceptNone
  \/ \E id \in Ids : LineReady(id)
  \/ \E id \in Ids : BroadcastStep(id)
  \/ RemoveDead
  \/ Ack
  \/ \E id \in Ids : ReadError(id)
  \/ \E id \in Ids : EndOfStream(id)
  \/ Stall

Spec == Init /\ [][Next]_vars

\* What the runtime guarantees: main is the only task, so a step of main
\* that can be taken is taken.  The two branches of select! are polled in a
\* random order, so a branch that is ready again and again is taken (strong
\* fairness for the accept branch, which a flow of lines could otherwise
\* starve).  A write or flush that does not stall completes or fails.
\* Nothing makes the clients or the network act.
FairSpec ==
  /\ Spec
  /\ SF_vars(AcceptOk \/ AcceptErr \/ AcceptNone)
  /\ WF_vars(\E id \in Ids : LineReady(id) \/ ReadError(id) \/ EndOfStream(id))
  /\ WF_vars((\E id \in Ids : BroadcastStep(id)) \/ RemoveDead \/ Ack)

\* ---- vocabulary of the properties ---------------------------------------
Last(q) == q[Len(q)]
IsLogin(m, id) == m.kind = "LOGIN" /\ m.id = id
IsMessage(m, id, t) == m.kind = "MESSAGE" /\ m.id = id /\ m.text = t
IsAck(m) == m.kind = "ACK"
\* The connection is in one of the two mappings.
Held(c) == c \in Range(writers) \/ c \in Range(inputs)
\* handle_new_client has run for c.
Handled(c) == c \in 1..nconn /\ \A i \in 1..Len(incoming) : incoming[i].conn # c
\* The step of main that returns from the line-ready handler.
AckStep == pc = "ack" /\ pc' = "select"

\* ---- C1 -----------------------------------------------------------------
\* C1: when the handler of a line of client C returns and no write or flush
\* failed in it, every connection registered under another id when the
\* handler began has been sent exactly one more message, MESSAGE:<C> line,
\* and C's own connection exactly one more message, ACK:MESSAGE.
C1_ExactlyOnce ==
  [][(AckStep /\ dead = <<>> /\ failed' = failed) =>
       \A k \in Keys(startWriters) :
         LET c == startWriters[k] IN
         /\ Len(log'[c]) = Len(startLog[c]) + 1
         /\ SubSeq(log'[c], 1, Len(startLog[c])) = startLog[c]
         /\ IF k = client_id
            THEN IsAck(Last(log'[c]))
            ELSE IsMessage(Last(log'[c]), client_id, line)]_vars

\* Two recipients have the same MESSAGE last and its sender has the ACK.
C1_Witness ==
  /\ pc = "select" /\ failed = {}
  /\ \E c, d, e \in Conns :
       /\ c # d /\ d # e /\ c # e
       /\ log[c] # <<>> /\ log[d] # <<>> /\ log[e] # <<>>
       /\ IsAck(Last(log[c]))
       /\ \E t \in Texts : /\ IsMessage(Last(log[d]), port[c], t)
                            /\ IsMessage(Last(log[e]), port[c], t)

\* ---- C2 -----------------------------------------------------------------
\* C2: no connection has ever been sent a MESSAGE that carries its own id.
C2_NoEcho ==
  \A c \in Conns : \A i \in 1..Len(log[c]) :
    log[c][i].kind = "MESSAGE" => log[c][i].id # port[c]

\* A line has been relayed and acknowledged after an id was reused.
C2_Witness ==
  /\ superseded # {}
  /\ \E c, d \in Conns :
       /\ c # d /\ log[c] # <<>> /\ log[d] # <<>>
       /\ IsAck(Last(log[c]))
       /\ Last(log[d]).kind = "MESSAGE" /\ Last(log[d]).id = port[c]

\* ---- C3 -----------------------------------------------------------------
\* C3: whatever a connection has been sent starts with LOGIN:<its id> and
\* holds no other LOGIN, and a connection in the registry has been sent its
\* LOGIN.
C3_LoginFirst ==
  \A c \in Conns :
    /\ Held(c) => log[c] # <<>>
    /\ log[c] # <<>> =>
         /\ IsLogin(log[c][1], port[c])
         /\ \A i \in 2..Len(log[c]) : log[c][i].kind # "LOGIN"

\* A connection has been sent its LOGIN, then a MESSAGE, then an ACK.
C3_Witness ==
  \E c \in Conns :
    /\ Len(log[c]) >= 3 /\ log[c][1].kind = "LOGIN"
    /\ log[c][2].kind = "MESSAGE" /\ log[c][3].kind = "ACK"

\* ---- C4 -----------------------------------------------------------------
\* C4: between two events the two mappings have the same keys.
C4_CoIndexed ==
  pc \in {"select", "stopped"} => Keys(writers) = Keys(inputs)

\* ---- C5 -----------------------------------------------------------------
\* C5: between two events, a connection whose stream has ended or has
\* yielded an error is in neither mapping.
C5_EndedRemoved ==
  pc \in {"select", "stopped"} => \A c \in ended : ~Held(c)

\* ---- C6 -----------------------------------------------------------------
\* C6: once the broadcast loop and the removal are over (the ack is next),
\* if some recipient failed then every id registered when the handler began,
\* the sender excepted, was attempted exactly once; a recipient whose write
\* and flush succeeded has been sent the message and a failed one nothing;
\* the sender is still in writers, so its ack is attempted; and a connection
\* a write or flush failed on is in neither mapping, then and ever after
\* (before the removal, in the broadcast loop or stalled in it, it is held
\* only as an entry of dead).
C6_FailureIsolated ==
  /\ (pc = "ack" /\ dead # <<>>) =>
       /\ {tried[i].id : i \in 1..Len(tried)} = Keys(startWriters) \ {client_id}
       /\ Len(tried) = Cardinality(Keys(startWriters) \ {client_id})
       /\ \A i \in 1..Len(tried) :
            LET c == tried[i].conn IN
            /\ c = startWriters[tried[i].id]
            /\ IF tried[i].res = "ok"
               THEN /\ Len(log[c]) = Len(startLog[c]) + 1
                    /\ IsMessage(Last(log[c]), client_id, line)
               ELSE /\ log[c] = startLog[c]
                    /\ \E j \in 1..Len(dead) : dead[j] = tried[i].id
       /\ writers[client_id] # NoConn
       /\ writers[client_id] = startWriters[client_id]
  /\ \A c \in failed :
       Held(c) => /\ pc = "broadcast" \/ (pc = "stalled" /\ iter # {})
                  /\ \E j \in 1..Len(dead) : writers[dead[j]] = c

\* A recipient failed, a later one was sent the message, the ack is next.
C6_Witness ==
  /\ pc = "ack"
  /\ \E i, j \in 1..Len(tried) :
       /\ i < j /\ tried[i].res # "ok" /\ tried[j].res = "ok"
       /\ ~Held(tried[i].conn)
       /\ IsMessage(Last(log[tried[j].conn]), client_id, line)

\* ---- C7 -----------------------------------------------------------------
\* C7: in the handler of a line sent while no other client is registered
\* (no other id is in both mappings), no MESSAGE is written to anyone.
C7_NoRecipient ==
  (pc = "broadcast" /\ Keys(startWriters) \cap Keys(inputs) = {client_id})
    => log = startLog

\* ---- C8 -----------------------------------------------------------------
\* C8: an accept whose login notice is not sent leaves both mappings as they
\* were, and main stays in its loop.
C8_LoginFailureNotRegistered ==
  [][(/\ pc = "select" /\ incoming # <<>> /\ Head(incoming).kind = "ok"
      /\ incoming' = Tail(incoming)
      /\ log'[Head(incoming).conn] = <<>>)
       => (writers' = writers /\ inputs' = inputs /\ pc' = "select")]_vars

\* The login to a connection failed while its id was registered to another.
C8_Witness ==
  \E c \in Conns :
    /\ Handled(c) /\ port[c] # NoId /\ log[c] = <<>> /\ ~Held(c)
    /\ writers[port[c]] # NoConn /\ inputs[port[c]] # NoConn

\* ---- C9 -----------------------------------------------------------------
\* C9: the accept that replaces a registration leaves, under that id, the new
\* connection in both mappings; a replaced connection is in neither mapping,
\* is sent nothing any more, and none of its lines is taken from its stream.
C9_Supersede ==
  [][/\ \A c \in superseded' \ superseded :
          /\ writers'[port[c]] = inputs'[port[c]]
          /\ writers'[port[c]] \notin {NoConn, c}
          /\ port[writers'[port[c]]] = port[c]
     /\ \A c \in superseded' :
          /\ c \notin Range(writers') /\ c \notin Range(inputs')
          /\ log'[c] = log[c]
          /\ Len(inbuf'[c]) >= Len(inbuf[c])]_vars

\* A replaced connection has sent a line that stays unread, while a line of
\* the connection that replaced it has been acknowledged.
C9_Witness ==
  \E c \in superseded :
    /\ inbuf[c] # <<>>
    /\ \E d \in Conns : /\ d # c /\ port[d] = port[c]
                         /\ log[d] # <<>> /\ IsAck(Last(log[d]))

Attempted == {tried[i].id : i \in 1..Len(tried)}

C11_AckAfterRecipients ==
  [][/\ AckStep =>
          /\ iter = {}
          /\ Attempted = Keys(startWriters) \ {client_id}
          /\ \A j \in 1..Len(dead) :
               writers[dead[j]] = NoConn /\ inputs[dead[j]] = NoConn
          /\ LET w == startWriters[client_id] IN
             /\ w # NoConn /\ writers[client_id] = w
             /\ \/ /\ Len(log'[w]) = Len(log[w]) + 1
                   /\ IsAck(Last(log'[w]))
                \/ /\ log'[w] = log[w]
                   /\ w \in failed' \ failed
     /\ \A c \in Conns :
          (Len(log'[c]) > Len(log[c]) /\ IsAck(Last(log'[c]))) =>
            (AckStep /\ c = writers[client_id])]_vars

\* One line has been processed: a recipient failed, another was sent the
\* message, and the sender has its ACK.
C11_Witness ==
  /\ pc = "select" /\ Len(processed) = 1 /\ failed # {}
  /\ LET p == processed[1] IN
     /\ log[p.conn] # <<>> /\ IsAck(Last(log[p.conn]))
     /\ \E d \in Conns : /\ log[d] # <<>>
                         /\ IsMessage(Last(log[d]), p.id, p.text)

\* ---- C12 ----------------------------------------------------------------
\* C12: main takes a line only at the select (no handler is in progress), and
\* the line it takes from a connection is the oldest one unread on it: every
\* line of that connection processed before was sent earlier, every line
\* still waiting on it was sent later (texts number the lines as sent).
C12_PerClientOrder ==
  [][processed' # processed =>
       /\ pc = "select" /\ pc' = "broadcast"
       /\ \E c \in Conns :
            /\ inbuf[c] # <<>> /\ Head(inbuf[c]).kind = "line"
            /\ inbuf'[c] = Tail(inbuf[c])
            /\ processed' = Append(processed,
                 [conn |-> c, id |-> port[c], text |-> Head(inbuf[c]).text])
            /\ line' = Head(inbuf[c]).text /\ client_id' = port[c]
            /\ \A i \in 1..Len(inbuf'[c]) :
                 inbuf'[c][i].kind = "line" =>
                   inbuf'[c][i].text > Head(inbuf[c]).text
            /\ \A i \in 1..Len(processed) :
                 processed[i].conn = c =>
                   processed[i].text < Head(inbuf[c]).text]_vars

\* Two lines of one connection have been processed, and another connection
\* has been sent both, the first sent first.
C12_Witness ==
  /\ pc = "select" /\ Len(processed) = 2
  /\ processed[1].conn = processed[2].conn
  /\ \E d \in Conns :
       /\ Len(log[d]) >= 3
       /\ IsMessage(log[d][Len(log[d]) - 1], processed[1].id, processed[1].text)
       /\ IsMessage(log[d][Len(log[d])], processed[2].id, processed[2].text)

\* ---- C13 ----------------------------------------------------------------
Pending(c) == \E i \in 1..Len(incoming) :
                incoming[i].kind = "ok" /\ incoming[i].conn = c
\* main leaves the loop only on the None of the connection source.
StopsOnlyOnNone ==
  [][(pc # "stopped" /\ pc' = "stopped") =>
       (pc = "select" /\ incoming # <<>> /\ Head(incoming).kind = "end")]_vars

\* C13 as claimed: main leaves the loop only when the connection source
\* yields None, and a pending connection is eventually accepted.
C13_PendingAccepted ==
  /\ StopsOnlyOnNone
  /\ \A c \in Conns : Pending(c) ~> Handled(c)

\* C13 as amended: main leaves the loop only when the connection source
\* yields None, and a pending connection is eventually accepted unless main
\* is stalled in a write or flush that never completes.
C13_PendingAcceptedUnlessStalled ==
  /\ StopsOnlyOnNone
  /\ \A c \in Conns : Pending(c) ~> (Handled(c) \/ pc = "stalled")

\* The last stream has ended or failed, no client is left, main is at the
\* select and a later connection has been accepted and registered.
C13_Witness ==
  /\ pc = "select" /\ ended # {}
  /\ \E d \in Conns :
       /\ Held(d) /\ log[d] # <<>>
       /\ \A c \in ended : c < d /\ ~Held(c)
       /\ \A c \in Conns : Held(c) => c = d

\* ---- C14 ----------------------------------------------------------------
\* The handler returns and the acknowledgement has not been written.
AckFailed == AckStep /\ log'[writers[client_id]] = log[writers[client_id]]

\* C14: when the write or the flush of the acknowledgement fails, the sender
\* leaves both mappings, every other id keeps its entries in both, and
\* nothing is written to any connection.
C14_AckFailureRemovesSender ==
  [][(AckStep /\ writers[client_id] # NoConn /\ AckFailed) =>
       /\ writers'[client_id] = NoConn /\ inputs'[client_id] = NoConn
       /\ \A y \in Ids \ {client_id} :
            writers'[y] = writers[y] /\ inputs'[y] = inputs[y]
       /\ log' = log]_vars

\* The acknowledgement of the last line failed: its sender is gone, and a
\* recipient of that line is still registered and has the MESSAGE as the
\* last thing written to it.
C14_Witness ==
  /\ pc = "select" /\ processed # <<>>
  /\ LET p == Last(processed) IN
     /\ p.conn \in failed /\ ~Held(p.conn)
     /\ ~IsAck(Last(log[p.conn]))
     /\ \E d \in Conns \ {p.conn} :
          /\ d \in Range(writers) /\ d \in Range(inputs)
          /\ IsMessage(Last(log[d]), p.id, p.text)

\* ---- C15 ----------------------------------------------------------------
\* main takes a read error or the end of the stream of connection c.
StreamOver(c) ==
  /\ inbuf[c] # <<>> /\ Head(inbuf[c]).kind \in {"err", "eof"}
  /\ inbuf'[c] = Tail(inbuf[c])

\* C15: a read failure or the end of the stream of a registered client
\* changes the two mappings at that client's id only, and writes nothing.
C15_ReadEndFrame ==
  [][\A c \in Conns :
       StreamOver(c) =>
         /\ port[c] # NoId /\ inputs[port[c]] = c
         /\ \A y \in Ids \ {port[c]} :
              writers'[y] = writers[y] /\ inputs'[y] = inputs[y]
         /\ log' = log]_vars

\* One stream has failed and another has ended, and a third client is still
\* in both mappings.
C15_Witness ==
  /\ pc = "select"
  /\ \E c, e, d \in Conns :
       /\ c \in ended /\ ~Held(c)
       /\ e \in ended /\ e # c /\ e \notin Range(inputs)
       /\ d \notin ended
       /\ d \in Range(writers) /\ d \in Range(inputs)

\* ---- C16 ----------------------------------------------------------------
\* main takes a failed accept from the connection source.
AcceptFailed ==
  /\ incoming # <<>> /\ Head(incoming).kind = "err"
  /\ incoming' = Tail(incoming)

\* C16: a failed accept leaves both mappings as they are, writes nothing and
\* leaves main at the select, from where later connections are accepted.
C16_AcceptFailureFrame ==
  [][AcceptFailed =>
       /\ writers' = writers /\ inputs' = inputs /\ log' = log
       /\ pc = "select" /\ pc' = "select"]_vars

\* An accept has failed, and a connection that arrived after it has been
\* accepted, sent its LOGIN and registered in both mappings.
C16_Witness ==
  \E c, d \in Conns :
    /\ c < d /\ Handled(c) /\ port[c] = NoId
    /\ Handled(d) /\ port[d] # NoId
    /\ writers[port[d]] = d /\ inputs[port[d]] = d
    /\ log[d] = <<LoginMsg(port[d])>>

\* ---- C17 ----------------------------------------------------------------
\* C17: every id watched in inputs has the same connection in writers; while
\* a handler runs its sender is in writers, so the acknowledgement is always
\* attempted; and the list of failed recipients never holds the sender.
C17_SenderRegistered ==
  /\ \A k \in Ids : inputs[k] # NoConn => writers[k] = inputs[k]
  /\ pc \in {"broadcast", "ack"} =>
       /\ client_id \in Ids /\ writers[client_id] # NoConn
       /\ writers[client_id] = Last(processed).conn
  /\ \A j \in 1..Len(dead) : dead[j] # client_id

\* The acknowledgement is about to be attempted after a broadcast in which a
\* recipient failed, with an id in writers that inputs no longer watches.
C17_Witness ==
  /\ pc = "ack" /\ dead # <<>>
  /\ writers[client_id] # NoConn
  /\ Keys(inputs) # Keys(writers)

\* ---- C18 ----------------------------------------------------------------
\* A line-ready handler is in progress.
InHandler == pc \in {"broadcast", "ack", "stalled"}
IsPrefix(q, r) == Len(q) <= Len(r) /\ SubSeq(r, 1, Len(q)) = q

\* C18: while a line-ready handler is in progress no connection is taken
\* from the source, no client is registered and no stream item is taken; the
\* handler starts from the writers of that moment, and when its loop is left
\* the recipients attempted are the ids registered then minus the sender,
\* each once; a connection still pending has been written nothing, and a
\* MESSAGE goes only to a connection registered when the handler started.
C18_HandlersDoNotOverlap ==
  [][/\ InHandler =>
          /\ IsPrefix(incoming, incoming')
          /\ processed' = processed
          /\ \A c \in Conns : IsPrefix(inbuf[c], inbuf'[c])
          /\ \A k \in Ids : /\ writers'[k] \in {writers[k], NoConn}
                             /\ inputs'[k] \in {inputs[k], NoConn}
          /\ \A c \in Conns : Pending(c) => (log'[c] = <<>> /\ ~Held(c)')
          /\ \A c \in Conns :
               log'[c] # log[c] =>
                 /\ c \in Range(startWriters)
                 /\ c # Last(processed).conn =>
                      log'[c] = Append(log[c], MessageMsg(client_id, line))
          /\ \A i \in 1..Len(tried') :
               /\ startWriters[tried'[i].id] = tried'[i].conn
               /\ tried'[i].id # client_id
               /\ \A j \in 1..Len(tried') : tried'[j].id = tried'[i].id => j = i
     /\ (pc = "select" /\ pc' = "broadcast") =>
          /\ startWriters' = writers /\ writers' = writers /\ tried' = <<>>
          /\ client_id' = Last(processed').id /\ line' = Last(processed').text
     /\ (pc = "broadcast" /\ pc' = "ack") =>
          Attempted = Keys(startWriters) \ {client_id}]_vars

\* The broadcast of a line is over, a recipient was attempted, and a
\* connection that arrived meanwhile is still waiting to be accepted.
C18_Witness ==
  /\ pc = "ack" /\ tried # <<>>
  /\ \E d \in Conns :
       /\ Pending(d) /\ log[d] = <<>>
       /\ d \notin Range(startWriters)
       /\ \E c \in Conns \ {d} : log[c] # <<>> /\ IsMessage(Last(log[c]), client_id, line)

\* ---- C19 ----------------------------------------------------------------
Count(q, P(_)) == Cardinality({i \in 1..Len(q) : P(q[i])})
LinesFrom(c) == Cardinality({j \in 1..Len(processed) : processed[j].conn = c})
\* What may have been written to connection c.
LogShape(c) ==
  /\ log[c] # <<>> => (port[c] # NoId /\ log[c][1] = LoginMsg(port[c]))
  /\ \A i \in 2..Len(log[c]) :
       \/ /\ IsAck(log[c][i])
       \/ /\ log[c][i].kind = "MESSAGE"
          /\ \E j \in 1..Len(processed) :
               /\ processed[j].conn # c
               /\ log[c][i] = MessageMsg(processed[j].id, processed[j].text)
          /\ \A k \in 2..Len(log[c]) : log[c][k] = log[c][i] => k = i
  /\ Count(log[c], IsAck) <= LinesFrom(c)
\* Some id leaves one of the two mappings.
Removal == \E k \in Ids : \/ writers[k] # NoConn /\ writers'[k] = NoConn
                          \/ inputs[k] # NoConn /\ inputs'[k] = NoConn

\* C19: a step that removes a client writes nothing, and all that is ever
\* written to a connection is its LOGIN first, at most one MESSAGE for each
\* line processed from another connection and at most one ACK for each line
\* processed from itself.
C19_OnlyProtocolWrites ==
  [][/\ Removal => log' = log
     /\ \A c \in Conns : LogShape(c)']_vars

\* Clients have been removed after a read error or end of stream and after
\* a failed write, and a client still registered has been written a LOGIN,
\* a MESSAGE and an ACK and nothing else.
C19_Witness ==
  /\ \E c \in ended : c \notin Range(inputs)
  /\ \E c \in failed : ~Held(c)
  /\ \E d \in Conns :
       /\ d \in Range(writers) /\ d \in Range(inputs)
       /\ Len(log[d]) = 3
       /\ Count(log[d], IsAck) = 1
       /\ \E i \in 2..3 : log[d][i].kind = "MESSAGE"

\* ---- C20 ----------------------------------------------------------------
\* The place of the line with text t in the order main processed the lines.
Pos(t) == CHOOSE j \in 1..Len(processed) : processed[j].text = t
\* Every connection has been written its MESSAGEs in the order main
\* processed their lines.
SameOrder ==
  \A c \in Conns : \A i, k \in 1..Len(log[c]) :
    (i < k /\ log[c][i].kind = "MESSAGE" /\ log[c][k].kind = "MESSAGE") =>
      Pos(log[c][i].text) < Pos(log[c][k].text)
\* The acknowledgement of every line but the one in progress is behind:
\* it has been written, or it has failed and its sender is gone.
AcksBehind ==
  \A c \in Conns :
    LET due == IF InHandler /\ Last(processed).conn = c
               THEN LinesFrom(c) - 1 ELSE LinesFrom(c) IN
    \/ Count(log[c], IsAck) = due
    \/ Count(log[c], IsAck) = due - 1 /\ c \in failed /\ ~Held(c)

\* C20: every connection is written its MESSAGEs in the order in which main
\* processed the lines, a MESSAGE written is that of the line processed
\* last, and a line is taken only when the acknowledgement of every earlier
\* line has been written or has failed.
C20_TotalOrder ==
  [][/\ SameOrder' /\ AcksBehind'
     /\ processed' # processed => (pc = "select" /\ AcksBehind)
     /\ \A c \in Conns :
          (Len(log'[c]) > Len(log[c]) /\ Last(log'[c]).kind = "MESSAGE") =>
            /\ pc = "broadcast"
            /\ Last(log'[c]).text = Last(processed).text
            /\ Last(log'[c]).id = Last(processed).id
     /\ \A c \in Conns :
          (Len(log'[c]) > Len(log[c]) /\ IsAck(Last(log'[c]))) =>
            (pc = "ack" /\ c = Last(processed).conn)]_vars

\* Two lines have been processed and acknowledged, and two connections have
\* each been written both MESSAGEs, in the order of processing.
C20_Witness ==
  /\ pc = "select" /\ Len(processed) = 2
  /\ Count(log[processed[2].conn], IsAck) = 2
  /\ \E a, b \in Conns :
       /\ a # b
       /\ \A c \in {a, b} :
            /\ Len(log[c]) = 3
            /\ IsMessage(log[c][2], processed[1].id, processed[1].text)
            /\ IsMessage(log[c][3], processed[2].id, processed[2].text)
====
